---------------------------- MODULE Spec2Model ----------------------------
(***************************************************************************)
(* Model of hsm.h (Heinzmann's "Yet Another Hierarchical State Machine"):  *)
(* the template recursion of Tran / InitialTran over a state hierarchy,    *)
(* the upward handle() delegation, and the host's state_ pointer.          *)
(***************************************************************************)
EXTENDS Integers, Sequences, FiniteSets, TLC

\* ------------------------------------------------------------------------
\* The state hierarchy the host program declares (types deriving from their
\* parent type).  "HsmState" is the abstract base of the top state and
\* "void" is HsmState::Base.
\* ------------------------------------------------------------------------
Composites == {"Root", "A", "AC"}

Leaves == {"A1", "A2", "AC1", "B"}

States == Composites \cup Leaves

NonRoot == States \ {"Root"}

None == "None"

\* typename T::Base
Base ==
  [s \in States \cup {"HsmState"} |->
     CASE s = "Root" -> "HsmState"
       [] s = "HsmState" -> "void"
       [] s \in {"A", "B"} -> "Root"
       [] s \in {"A1", "A2", "AC"} -> "A"
       [] s = "AC1" -> "AC"]

\* The HSM_INITIAL wirings the host may declare: per composite, the state
\* its initial transition targets (any proper descendant is accepted by
\* InitialTran, not only an immediate child).
InitialMaps ==
  { [c \in Composites |-> CASE c = "Root" -> "A"   [] c = "A" -> "A2" [] c = "AC" -> "AC1"],
    [c \in Composites |-> CASE c = "Root" -> "AC1" [] c = "A" -> "AC" [] c = "AC" -> "AC1"] }

\* Largest number of states that declare a mapping for one event kind.
MaxMappings == 2

\* An event kind is characterised by its column of the handler table: the
\* states that map it, each with its target.  The root maps nothing.
Events ==
  UNION { [D -> States] : D \in {X \in SUBSET NonRoot : Cardinality(X) <= MaxMappings} }

Mapping(s, ev) == IF s \in DOMAIN ev THEN ev[s] ELSE None

\* The event kinds at most one state maps.
SingleEvents == UNION { [D -> States] : D \in {{}} \cup {{s} : s \in NonRoot} }

\* ------------------------------------------------------------------------
\* The hierarchy as the specification speaks of it: ancestor paths and the
\* lowest common ancestor.
\* ------------------------------------------------------------------------
RECURSIVE Path(_)
\* [s, parent(s), ..., Root]
Path(s) == IF s = "Root" THEN <<s>> ELSE <<s>> \o Path(Base[s])

AncestorSets == [s \in States |-> {Path(s)[i] : i \in 1..Len(Path(s))}]

\* the states on the ancestor path of s, s included
Ancestors(s) == AncestorSets[s]

Depths == [s \in States |-> Len(Path(s))]

Depth(s) == Depths[s]

Deepest(S) == CHOOSE x \in S : \A y \in S : Depth(y) <= Depth(x)

\* the deepest state present in both ancestor paths
LCA(a, b) == Deepest(Ancestors(a) \cap Ancestors(b))

\* the boundary of a transition declared by s with target t: the LCA, or
\* the parent of t for a self-transition
Boundary(s, t) == IF s = t THEN Base[t] ELSE LCA(s, t)

\* s, parent(s), ... up to but excluding b (all of the path when b is above
\* the root)
Above(s, b) ==
  LET keep(x) == b = "HsmState" \/ x \notin Ancestors(b) IN SelectSeq(Path(s), keep)

Reverse(q) == [i \in 1..Len(q) |-> q[Len(q) + 1 - i]]

\* from b's child on the path of t down to and including t
Below(t, b) == Reverse(Above(t, b))

VARIABLES
  initialOf,   \* the HSM_INITIAL wiring of this program
  state_,      \* Hsm::state_, the current leaf (None before start)
  log,         \* the exit/entry/state_ writes of the last operation, in order
  handled,     \* what the last dispatch reported
  last,        \* the last operation: kind, state_ before it, source, target
  peer,        \* a second host on the same state types: its state_, and
               \* whether the last operation was run on it
  run          \* where the operation in progress stands, when operations
               \* are taken one call at a time

vars == <<initialOf, state_, log, handled, last, peer, run>>

\* ------------------------------------------------------------------------
\* std::is_base_of / std::is_same
\* ------------------------------------------------------------------------
RECURSIVE IsBaseOf(_, _)
IsBaseOf(b, d) ==
  IF b = "void" \/ d = "void" THEN FALSE
  ELSE IF b = d THEN TRUE
  ELSE IF d = "HsmState" THEN FALSE
  ELSE IsBaseOf(b, Base[d])

IsSame(a, b) == a = b

\* One recorded side effect.
Act(op, st, by) == [op |-> op, st |-> st, by |-> by]

\* ------------------------------------------------------------------------
\* Tran<TCurrent, TSource, TTarget>
\* ------------------------------------------------------------------------
eCB_S(c, s, t) == IsBaseOf(Base[c], s)

eCB_T(c, s, t) == IsBaseOf(Base[c], t)

eT_S(c, s, t) == IsBaseOf(t, s)

\* e_CB_EQ_S comparing the current state, not its base.
e_CB_EQ_S_Current(c, s, t) == IsSame(c, s)

e_CB_EQ_S(c, s, t) == IsSame(Base[c], s)

e_S_EQ_T(c, s, t) == IsSame(s, t)

\* exit_stop without the source: the recursion stops at the first ancestor of
\* the target.
exit_stop_IgnoresSource(c, s, t) ==
  eCB_T(c, s, t) /\ ~(e_S_EQ_T(c, s, t) /\ e_CB_EQ_S(c, s, t))

\* exit_stop without the exception for a self-transition.
exit_stop_NoSelfCase(c, s, t) == eCB_T(c, s, t) /\ eCB_S(c, s, t)

exit_stop(c, s, t) ==
  eCB_T(c, s, t) /\ eCB_S(c, s, t) /\ ~(e_S_EQ_T(c, s, t) /\ e_CB_EQ_S(c, s, t))

\* entry_stop_initial without the exception for a self-transition.
entry_stop_initial_NoSelfCase(c, s, t) == eT_S(c, s, t)

\* entry_stop_initial as InitialTran starts its recursion: never stopped.
entry_stop_initial_AsInitialTran(c, s, t) == FALSE

entry_stop_initial(c, s, t) == eT_S(c, s, t) /\ ~e_S_EQ_T(c, s, t)

\* entry_stop looking at the target, not the source.
entry_stop_TargetOnly(c, s, t) == eCB_T(c, s, t)

entry_stop(c, s, t) == eCB_S(c, s, t)

RECURSIVE exitActions_ParentFirst(_, _, _, _)
\* exitActions recursing to the base before calling exit.
exitActions_ParentFirst(c, s, t, stop) ==
  IF stop THEN << >>
  ELSE exitActions_ParentFirst(Base[c], s, t,
         eCB_T(c, s, t) /\ eCB_S(c, s, t) /\ ~(e_S_EQ_T(c, s, t) /\ e_CB_EQ_S(c, s, t)))
         \o <<Act("exit", c, "Tran")>>

RECURSIVE exitActions(_, _, _, _)
exitActions(c, s, t, stop) ==
  IF stop THEN << >>
  ELSE <<Act("exit", c, "Tran")>> \o exitActions(Base[c], s, t, exit_stop(c, s, t))

RECURSIVE entryActions_ChildFirst(_, _, _, _)
\* entryActions calling entry before recursing to the base.
entryActions_ChildFirst(c, s, t, stop) ==
  IF stop THEN << >>
  ELSE <<Act("entry", c, "Tran")>>
         \o entryActions_ChildFirst(Base[c], s, t, eCB_S(c, s, t))

RECURSIVE entryActions(_, _, _, _)
entryActions(c, s, t, stop) ==
  IF stop THEN << >>
  ELSE entryActions(Base[c], s, t, entry_stop(c, s, t)) \o <<Act("entry", c, "Tran")>>

\* ------------------------------------------------------------------------
\* InitialTran<TCurrent, TSource, TTarget>
\* ------------------------------------------------------------------------
\* InitialTran's entry_stop comparing the current state, not its base.
I_entry_stop_Self(c, s, t) == IsSame(c, s)

I_entry_stop(c, s, t) == IsSame(Base[c], s)

RECURSIVE I_entryActions(_, _, _, _)
I_entryActions(c, s, t, stop) ==
  IF stop THEN << >>
  ELSE I_entryActions(Base[c], s, t, I_entry_stop(c, s, t))
         \o <<Act("entry", c, "InitialTran")>>

\* LeafState::initial
LeafInitial(l) == <<Act("set", l, "LeafState")>>

RECURSIVE initial(_)
\* ~InitialTran (the constructor does nothing)
InitialTranScope(c, s, t) == I_entryActions(t, s, t, FALSE) \o initial(t)

\* initial() writing state_ whatever the state is.
initial_NoDescent(st) == LeafInitial(st)

\* initial() of a composite writing state_ before it descends.
initial_WritesEveryLevel(st) ==
  IF st \in Leaves THEN LeafInitial(st)
  ELSE LeafInitial(st) \o InitialTranScope(st, st, initialOf[st])

\* STATE::initial: LeafState::initial for a leaf, the HSM_INITIAL
\* specialisation for a composite
initial(st) ==
  IF st \in Leaves THEN LeafInitial(st)
  ELSE InitialTranScope(st, st, initialOf[st])

\* Tran::Tran
TranCtor(c, s, t) == exitActions(c, s, t, FALSE)

\* ~Tran calling TTarget::initial before the entry actions.
TranDtor_DescentFirst(c, s, t) ==
  initial(t) \o entryActions(t, s, t, entry_stop_initial(c, s, t))

\* ~Tran calling TSource::initial.
TranDtor_InitialOfSource(c, s, t) ==
  entryActions(t, s, t, entry_stop_initial(c, s, t)) \o initial(s)

\* Tran::~Tran
TranDtor(c, s, t) ==
  entryActions(t, s, t, entry_stop_initial(c, s, t)) \o initial(t)

\* A Tran object living for one scope: constructor, then destructor.
TranScope(c, s, t) == TranCtor(c, s, t) \o TranDtor(c, s, t)

\* ------------------------------------------------------------------------
\* handle(): the upward walk
\* ------------------------------------------------------------------------
NotHandled == [log |-> << >>, handled |-> FALSE, src |-> None, tgt |-> None]

Fire(c, s, t) == [log |-> TranScope(c, s, t), handled |-> TRUE, src |-> s, tgt |-> t]

RECURSIVE handle(_, _, _)
\* The top state's handle making a transition to the top state.
DefaultHandle_RootHandles(s, c, ev) ==
  IF s = "Root" THEN Fire(c, "Root", "Root") ELSE handle(Base[s], c, ev)

\* The handle() every state has unless the host specialises it: delegate to
\* Base::handle; the top state's handle does nothing.
DefaultHandle(s, c, ev) ==
  IF s = "Root" THEN NotHandled ELSE handle(Base[s], c, ev)

\* A state's handle() as the host specialises it: a mapped event makes a
\* Tran<TCurrent, This, Target>, anything else goes to the default.
handle(s, c, ev) ==
  IF Mapping(s, ev) # None THEN Fire(c, s, Mapping(s, ev))
  ELSE DefaultHandle(s, c, ev)

\* handler starting at Base::handle.
handler_SkipsLeaf(c, ev) == handle(Base[c], c, ev)

\* LeafState::handler
handler(c, ev) == handle(c, c, ev)

\* The value of state_ after a sequence of recorded side effects.
RECURSIVE StateAfter(_, _)
StateAfter(cur, l) ==
  IF l = << >> THEN cur
  ELSE StateAfter(IF Head(l).op = "set" THEN Head(l).st ELSE cur, Tail(l))

\* ------------------------------------------------------------------------
\* The machine
\* ------------------------------------------------------------------------
NoOp == [kind |-> "none", cur |-> None, src |-> None, tgt |-> None,
         mapped |-> 0, off |-> FALSE, deep |-> None, deepTgt |-> None]

\* The second host before it is started.
NoPeer == [state_ |-> None, ran |-> FALSE]

\* No operation in progress.
Idle == [pc |-> "idle", cur |-> None, c |-> None, s |-> None, t |-> None,
         stop |-> FALSE, stack |-> << >>, ev |-> << >>]

Init ==
  /\ initialOf \in InitialMaps
  /\ state_ = None
  /\ log = << >>
  /\ handled = FALSE
  /\ last = NoOp
  /\ peer = NoPeer
  /\ run = Idle

\* start(): the top state's initial transition.
StartOp ==
  /\ state_ = None
  /\ LET l == initial("Root") IN
       /\ log' = l
       /\ state_' = StateAfter(state_, l)
  /\ handled' = FALSE
  /\ last' = [NoOp EXCEPT !.kind = "start", !.tgt = "Root"]
  /\ UNCHANGED initialOf

\* dispatch(event): state_->handler(host).  last records, beside the
\* outcome, what the event's column says about the states on and off the
\* path of state_.
DispatchOf(E) ==
  /\ state_ # None
  /\ \E ev \in E :
       LET r == handler(state_, ev)
           on == DOMAIN ev \cap Ancestors(state_)
           d == IF on = {} THEN None ELSE Deepest(on)
       IN
         /\ log' = r.log
         /\ state_' = StateAfter(state_, r.log)
         /\ handled' = r.handled
         /\ last' = [kind |-> "dispatch", cur |-> state_, src |-> r.src, tgt |-> r.tgt,
                     mapped |-> Cardinality(on), off |-> DOMAIN ev \ on # {},
                     deep |-> d, deepTgt |-> IF d = None THEN None ELSE ev[d]]
  /\ UNCHANGED initialOf

\* One host alone, every operation taken as a whole.
Start == StartOp /\ UNCHANGED <<peer, run>>

Dispatch == DispatchOf(Events) /\ UNCHANGED <<peer, run>>

Next == Start \/ Dispatch

Spec == Init /\ [][Next]_vars

\* ------------------------------------------------------------------------
\* Two hosts on the same state types.  The leaf instances obj_ are shared
\* and const; every function writes the state_ of the host it is given.
\* ------------------------------------------------------------------------
\* state_ as a static member: a write reaches every host.
WrittenBy_Static(h, target, old, l) == StateAfter(old, l)

\* The state_ of host target, old before, after host h ran the actions l.
WrittenBy(h, target, old, l) == IF target = h THEN StateAfter(old, l) ELSE old

\* start() / dispatch(event) on the first host
OwnStart ==
  /\ StartOp
  /\ peer' = [state_ |-> WrittenBy("own", "peer", peer.state_, log'), ran |-> FALSE]
  /\ UNCHANGED run

OwnDispatch ==
  /\ DispatchOf(SingleEvents)
  /\ peer' = [state_ |-> WrittenBy("own", "peer", peer.state_, log'), ran |-> FALSE]
  /\ UNCHANGED run

\* start() on the second host
PeerStart ==
  /\ peer.state_ = None
  /\ LET l == initial("Root") IN
       /\ log' = l
       /\ peer' = [state_ |-> WrittenBy("peer", "peer", peer.state_, l), ran |-> TRUE]
       /\ state_' = WrittenBy("peer", "own", state_, l)
  /\ handled' = FALSE
  /\ last' = [NoOp EXCEPT !.kind = "start", !.tgt = "Root"]
  /\ UNCHANGED <<initialOf, run>>

\* dispatch(event) on the second host
PeerDispatch ==
  /\ peer.state_ # None
  /\ \E ev \in SingleEvents :
       LET r == handler(peer.state_, ev)
           on == DOMAIN ev \cap Ancestors(peer.state_)
           d == IF on = {} THEN None ELSE Deepest(on)
       IN
         /\ log' = r.log
         /\ peer' = [state_ |-> WrittenBy("peer", "peer", peer.state_, r.log), ran |-> TRUE]
         /\ state_' = WrittenBy("peer", "own", state_, r.log)
         /\ handled' = r.handled
         /\ last' = [kind |-> "dispatch", cur |-> peer.state_, src |-> r.src, tgt |-> r.tgt,
                     mapped |-> Cardinality(on), off |-> DOMAIN ev \ on # {},
                     deep |-> d, deepTgt |-> IF d = None THEN None ELSE ev[d]]
  /\ UNCHANGED <<initialOf, run>>

SharedNext == OwnStart \/ OwnDispatch \/ PeerStart \/ PeerDispatch

SpecShared == Init /\ [][SharedNext]_vars

\* ------------------------------------------------------------------------
\* One host, one call at a time.  run holds the call in progress: the Tran
\* or InitialTran it belongs to (cur, s, t), the TCurrent of the recursion
\* (c) with its stop argument, and the recursions of entryActions that have
\* gone up and not yet come back (stack).  log grows with the operation.
\* ------------------------------------------------------------------------
\* handle() calling itself instead of the base's handle.
HandleCallee_Self(s) == s

\* The handle() a default handle() delegates to.
HandleCallee(s) == Base[s]

\* start(): the call of the top state's initial
BeginStart ==
  /\ run.pc = "idle"
  /\ state_ = None
  /\ run' = [Idle EXCEPT !.pc = "initial", !.t = "Root"]
  /\ log' = << >>
  /\ handled' = FALSE
  /\ last' = [NoOp EXCEPT !.kind = "start", !.tgt = "Root"]
  /\ UNCHANGED <<initialOf, state_, peer>>

\* dispatch(event): the call of state_->handler(host), which calls the
\* leaf's own handle.
BeginDispatch ==
  /\ run.pc = "idle"
  /\ state_ # None
  /\ \E ev \in SingleEvents :
       run' = [Idle EXCEPT !.pc = "handle", !.cur = state_, !.s = state_, !.ev = ev]
  /\ log' = << >>
  /\ handled' = FALSE
  /\ last' = [NoOp EXCEPT !.kind = "dispatch", !.cur = state_]
  /\ UNCHANGED <<initialOf, state_, peer>>

\* handle() of state run.s: a mapped event constructs the Tran, the top
\* state's handle returns, any other delegates.
HandleStep ==
  /\ run.pc = "handle"
  /\ IF Mapping(run.s, run.ev) # None
       THEN /\ run' = [run EXCEPT !.pc = "exit", !.c = run.cur,
                                  !.t = Mapping(run.s, run.ev), !.stop = FALSE]
            /\ handled' = TRUE
            /\ last' = [last EXCEPT !.src = run.s, !.tgt = Mapping(run.s, run.ev)]
       ELSE /\ run' = IF run.s = "Root" THEN [Idle EXCEPT !.ev = run.ev]
                      ELSE [run EXCEPT !.s = HandleCallee(run.s)]
            /\ UNCHANGED <<handled, last>>
  /\ UNCHANGED <<initialOf, state_, log, peer>>

\* One call of Tran::exitActions; when it stops the constructor is over and
\* the destructor calls entryActions.
ExitStep ==
  /\ run.pc = "exit"
  /\ IF run.stop
       THEN /\ run' = [run EXCEPT !.pc = "entryUp", !.c = run.t,
                                  !.stop = entry_stop_initial(run.cur, run.s, run.t)]
            /\ UNCHANGED log
       ELSE /\ log' = Append(log, Act("exit", run.c, "Tran"))
            /\ run' = [run EXCEPT !.c = Base[run.c],
                                  !.stop = exit_stop(run.c, run.s, run.t)]
  /\ UNCHANGED <<initialOf, state_, handled, last, peer>>

\* One call of Tran::entryActions on the way up: it recurses before it
\* calls entry.
EntryUpStep ==
  /\ run.pc = "entryUp"
  /\ run' = IF run.stop THEN [run EXCEPT !.pc = "entryDown"]
            ELSE [run EXCEPT !.stack = <<run.c>> \o run.stack, !.c = Base[run.c],
                             !.stop = entry_stop(run.c, run.s, run.t)]
  /\ UNCHANGED <<initialOf, state_, log, handled, last, peer>>

\* One return of Tran::entryActions: the entry of its TCurrent; after the
\* last the destructor calls TTarget::initial.
EntryDownStep ==
  /\ run.pc = "entryDown"
  /\ IF run.stack = << >>
       THEN /\ run' = [run EXCEPT !.pc = "initial"]
            /\ UNCHANGED log
       ELSE /\ log' = Append(log, Act("entry", Head(run.stack), "Tran"))
            /\ run' = [run EXCEPT !.stack = Tail(run.stack)]
  /\ UNCHANGED <<initialOf, state_, handled, last, peer>>

\* initial() of state run.t: a leaf writes state_ and every caller returns,
\* a composite makes its InitialTran, whose destructor calls entryActions.
InitialStep ==
  /\ run.pc = "initial"
  /\ IF run.t \in Leaves
       THEN /\ state_' = run.t
            /\ log' = log \o LeafInitial(run.t)
            /\ run' = [Idle EXCEPT !.ev = run.ev]
       ELSE /\ run' = [run EXCEPT !.pc = "initialUp", !.cur = run.t, !.s = run.t,
                                  !.t = initialOf[run.t], !.c = initialOf[run.t],
                                  !.stop = FALSE, !.stack = << >>]
            /\ UNCHANGED <<state_, log>>
  /\ UNCHANGED <<initialOf, handled, last, peer>>

\* One call of InitialTran::entryActions on the way up.
InitialUpStep ==
  /\ run.pc = "initialUp"
  /\ run' = IF run.stop THEN [run EXCEPT !.pc = "initialDown"]
            ELSE [run EXCEPT !.stack = <<run.c>> \o run.stack, !.c = Base[run.c],
                             !.stop = I_entry_stop(run.c, run.s, run.t)]
  /\ UNCHANGED <<initialOf, state_, log, handled, last, peer>>

\* One return of InitialTran::entryActions; after the last the destructor
\* calls TTarget::initial.
InitialDownStep ==
  /\ run.pc = "initialDown"
  /\ IF run.stack = << >>
       THEN /\ run' = [run EXCEPT !.pc = "initial"]
            /\ UNCHANGED log
       ELSE /\ log' = Append(log, Act("entry", Head(run.stack), "InitialTran"))
            /\ run' = [run EXCEPT !.stack = Tail(run.stack)]
  /\ UNCHANGED <<initialOf, state_, handled, last, peer>>

\* The calls of an operation in progress.
Running ==
  \/ HandleStep
  \/ ExitStep
  \/ EntryUpStep
  \/ EntryDownStep
  \/ InitialStep
  \/ InitialUpStep
  \/ InitialDownStep

StepNext == BeginStart \/ BeginDispatch \/ Running

\* The host decides when to call start() and dispatch(); a call once made
\* runs on the caller's thread until it returns.
SpecSteps == Init /\ [][StepNext]_vars /\ WF_vars(Running)

\* ------------------------------------------------------------------------
\* Reading the log of the last operation
\* ------------------------------------------------------------------------
StatesOf(q) == [i \in 1..Len(q) |-> q[i].st]

ExitSeq(l) == LET isExit(a) == a.op = "exit" IN StatesOf(SelectSeq(l, isExit))

TranEntrySeq(l) ==
  LET isEntry(a) == a.op = "entry" /\ a.by = "Tran" IN StatesOf(SelectSeq(l, isEntry))

DescentEntrySeq(l) ==
  LET isEntry(a) == a.op = "entry" /\ a.by = "InitialTran" IN StatesOf(SelectSeq(l, isEntry))

Brief(l) == [i \in 1..Len(l) |-> <<l[i].op, l[i].st>>]

\* 1: exit chain, 2: entry chain, 3: initial descent
Phase(a) == IF a.op = "exit" THEN 1 ELSE IF a.op = "entry" /\ a.by = "Tran" THEN 2 ELSE 3

RECURSIVE DefaultLeaf(_)
\* the leaf the default-child links lead to
DefaultLeaf(s) == IF s \in Leaves THEN s ELSE DefaultLeaf(initialOf[s])

Handled == last.kind = "dispatch" /\ handled

ProperAncestors(s) == Ancestors(s) \ {s}

\* ------------------------------------------------------------------------
\* Claims
\* ------------------------------------------------------------------------

C3_PhasesInOrder ==
  Handled =>
    \A i, j \in 1..Len(log) : i < j => Phase(log[i]) <= Phase(log[j])

C3_Witness ==
  /\ Handled
  /\ Len(ExitSeq(log)) >= 1
  /\ Len(TranEntrySeq(log)) >= 2
  /\ Len(DescentEntrySeq(log)) >= 1

\* C4: after start() and after every dispatch() state_ is a leaf.
C4_CurrentIsLeaf == last.kind # "none" => state_ \in Leaves

C4_Witness == Handled /\ last.tgt \in Composites /\ state_ \in Leaves

\* C5: a self-transition the current leaf L declares runs exit(L), then
\* entry(L), nothing else, and leaves state_ = L.
C5_LeafSelfTransition ==
  (Handled /\ last.src = last.cur /\ last.tgt = last.cur) =>
    /\ Brief(log) = << <<"exit", last.cur>>, <<"entry", last.cur>>, <<"set", last.cur>> >>
    /\ state_ = last.cur

C5_Witness ==
  Handled /\ last.src = last.cur /\ last.tgt = last.cur /\ Depth(last.cur) = 4

\* What C6 says of a transition to a proper ancestor T of the current leaf.
ToAncestor(t) ==
  /\ ExitSeq(log) = Above(last.cur, t)
  /\ TranEntrySeq(log) = << >>
  /\ \A i \in 1..Len(log) : log[i].op \in {"exit", "entry"} => log[i].st # t
  /\ state_ = DefaultLeaf(t)

C7_UnmappedIsNoOp ==
  (last.kind = "dispatch" /\ last.mapped = 0) =>
    /\ handled = FALSE
    /\ state_ = last.cur
    /\ log = << >>

C7_Witness == last.kind = "dispatch" /\ last.mapped = 0 /\ last.off /\ Depth(last.cur) = 4

\* C8: the transition that fires is the one of the deepest state on the path
\* of state_ that maps the event; shallower and off-path mappings are unused.
C8_DeepestMappingFires ==
  (last.kind = "dispatch" /\ last.mapped > 0) =>
    /\ handled
    /\ last.src = last.deep
    /\ last.tgt = last.deepTgt
    /\ Head(log) = Act("exit", last.cur, "Tran")

C8_Witness ==
  /\ last.kind = "dispatch"
  /\ last.mapped >= 2
  /\ last.src = last.deep
  /\ last.src # last.cur

C10_DescentEntersBelowLanding ==
  (last.kind = "start" \/ Handled) =>
    /\ last.tgt \in Ancestors(state_)
    /\ DescentEntrySeq(log) = Below(state_, last.tgt)
    /\ log[Len(log)] = Act("set", state_, "LeafState")
    /\ \A i \in 1..Len(log) - 1 : log[i].op # "set"
    /\ \A i \in 1..Len(log) : log[i].op = "entry" => log[i].st # "Root"

C10_Witness ==
  /\ Handled
  /\ last.tgt \in Composites
  /\ Len(DescentEntrySeq(log)) >= 2

\* the exit and entry actions of a log, without the writes of state_
Actions(l) == LET isAction(a) == a.op # "set" IN Brief(SelectSeq(l, isAction))

\* C11: after a handled dispatch with target T, state_ is the leaf the
\* default-child links lead to from T, whatever leaf was current before.
C11_LandsOnDefaultLeaf == Handled => state_ = DefaultLeaf(last.tgt)

C11_Witness ==
  /\ Handled
  /\ last.tgt \in Composites
  /\ last.tgt \notin Ancestors(last.cur)
  /\ state_ = DefaultLeaf(last.tgt)

\* C13: with Root -> A (default A2) -> {A1, A2} and Root -> B, start() runs
\* [entry A, entry A2] and ends in A2; from A2 the mapping A2 -> B runs
\* [exit A2, exit A, entry B] and ends in B; from B the mapping B -> A2 runs
\* [exit B, entry A, entry A2] and ends in A2.
C13_Scenario ==
  (initialOf["Root"] = "A" /\ initialOf["A"] = "A2") =>
    /\ last.kind = "start" =>
         /\ Actions(log) = << <<"entry", "A">>, <<"entry", "A2">> >>
         /\ state_ = "A2"
    /\ (Handled /\ last.cur = "A2" /\ last.src = "A2" /\ last.tgt = "B") =>
         /\ Actions(log) = << <<"exit", "A2">>, <<"exit", "A">>, <<"entry", "B">> >>
         /\ state_ = "B"
    /\ (Handled /\ last.cur = "B" /\ last.src = "B" /\ last.tgt = "A2") =>
         /\ Actions(log) = << <<"exit", "B">>, <<"entry", "A">>, <<"entry", "A2">> >>
         /\ state_ = "A2"

C13_Witness ==
  /\ initialOf["Root"] = "A" /\ initialOf["A"] = "A2"
  /\ Handled /\ last.cur = "B" /\ last.src = "B" /\ last.tgt = "A2"
  /\ state_ = "A2"

\* The non-root states on the ancestor path of a leaf (none before start).
OnPath(l) == IF l = None THEN {} ELSE Ancestors(l) \ {"Root"}

RECURSIVE RunsCleanly(_, _)
\* Running the actions of l from the active set act: no exit of a non-root
\* state that is not active, no entry of a state that is active.
RunsCleanly(act, l) ==
  IF l = << >> THEN TRUE
  ELSE LET a == Head(l) IN
    CASE a.op = "exit" ->
           (a.st \in act \/ a.st = "Root") /\ RunsCleanly(act \ {a.st}, Tail(l))
      [] a.op = "entry" ->
           a.st \notin act /\ RunsCleanly(act \cup {a.st}, Tail(l))
      [] OTHER -> RunsCleanly(act, Tail(l))

RECURSIVE ActiveAfter(_, _)
\* the active set after the actions of l
ActiveAfter(act, l) ==
  IF l = << >> THEN act
  ELSE LET a == Head(l) IN
    ActiveAfter(CASE a.op = "exit" -> act \ {a.st}
                  [] a.op = "entry" -> act \cup {a.st}
                  [] OTHER -> act,
                Tail(l))

\* C17: after start() and every dispatch the active states (entered and not
\* exited since) are the non-root states on the path of state_; no exit runs
\* for an inactive non-root state and no entry for an active one.
C17_ActiveIsPath ==
  last.kind # "none" =>
    /\ RunsCleanly(OnPath(last.cur), log)
    /\ ActiveAfter(OnPath(last.cur), log) \ {"Root"} = OnPath(state_)

C17_Witness ==
  /\ Handled
  /\ last.src # last.cur
  /\ Len(ExitSeq(log)) >= 2
  /\ Len(TranEntrySeq(log)) >= 1
  /\ Len(DescentEntrySeq(log)) >= 1

\* C18: a self-transition of a composite H above the current leaf C exits C
\* and every state up through H, child to parent, then enters H once, exits
\* and enters nothing above H, and state_ is set by initial descent from H.
C18_CompositeSelfTransition ==
  (Handled /\ last.src = last.tgt /\ last.src \in ProperAncestors(last.cur)) =>
    /\ ExitSeq(log) = Above(last.cur, Base[last.src])
    /\ TranEntrySeq(log) = <<last.src>>
    /\ \A i \in 1..Len(log) : log[i].st \notin ProperAncestors(last.src)
    /\ DescentEntrySeq(log) = Below(state_, last.src)
    /\ state_ = DefaultLeaf(last.src)

C18_Witness ==
  /\ Handled
  /\ last.src = last.tgt
  /\ last.src \in ProperAncestors(last.cur)
  /\ Len(ExitSeq(log)) >= 3

\* the positions of the log that write state_
Writes(l) == {i \in 1..Len(l) : l[i].op = "set"}

\* C19: state_ is written once per start() and per handled dispatch, as the
\* last step: before that write it still is the leaf that was current when
\* the operation began; an unhandled dispatch does not write it.
C19_SingleWriteLast ==
  /\ (last.kind = "start" \/ Handled) =>
       /\ Writes(log) = {Len(log)}
       /\ \A n \in 0..Len(log) - 1 : StateAfter(last.cur, SubSeq(log, 1, n)) = last.cur
  /\ (last.kind = "dispatch" /\ ~handled) => Writes(log) = {}

C19_Witness ==
  /\ Handled
  /\ state_ # last.cur
  /\ Len(log) >= 5
  /\ Len(DescentEntrySeq(log)) >= 1

\* C15: with two hosts on the same state types, start() or dispatch() on one
\* host leaves the state_ of the other host unchanged, in any interleaving
\* of whole operations.
C15_OtherHostUntouched ==
  [][ /\ peer'.ran => state_' = state_
      /\ ~peer'.ran => peer'.state_ = peer.state_ ]_vars

C15_Witness ==
  /\ peer.ran
  /\ Handled
  /\ state_ # None
  /\ peer.state_ # state_
  /\ peer.state_ # last.cur


\* The operation taken call by call leaves what the operation taken as a
\* whole leaves.
StepsAgree ==
  run.pc = "idle" =>
    /\ last.kind = "start" => log = initial("Root")
    /\ last.kind = "dispatch" =>
         /\ log = handler(last.cur, run.ev).log
         /\ handled = handler(last.cur, run.ev).handled
    /\ last.kind # "none" => state_ = StateAfter(last.cur, log)

\* C14: start() and every dispatch() terminate: from every point of an
\* operation in progress - the handler walk, the exit chain, the entry
\* chain, the initial descent - the machine is eventually back in idle with
\* state_ a leaf.
C14_RunsToCompletion ==
  (run.pc # "idle") ~> (run.pc = "idle" /\ state_ \in Leaves)

\* A dispatch that walked up to an ancestor's mapping, exited and entered
\* states, descended, and is over.
C14_Witness ==
  /\ run.pc = "idle"
  /\ last.kind = "dispatch"
  /\ handled
  /\ last.src # last.cur
  /\ Len(ExitSeq(log)) >= 2
  /\ Len(TranEntrySeq(log)) >= 1
  /\ Len(DescentEntrySeq(log)) >= 1
  /\ state_ \in Leaves

=============================================================================
